---- MODULE Spec2Model ----
(***************************************************************************)
(* Model of financial_agent.py: a straight-line script that loads the      *)
(* environment, prints two sanity checks, constructs two Specialist Agents *)
(* and one Coordinator Agent, and submits one literal query to the         *)
(* Coordinator.                                                            *)
(*                                                                         *)
(* The script's own statements are modelled one action per statement.      *)
(* What happens inside the call multi_ai_agent.print_response(...) is the  *)
(* work of the Agent library, whose code is not part of this repository's  *)
(* sources; it is modelled from the interface contracts of the             *)
(* specification (sections 2, 4 and 6): the Coordinator delegates to       *)
(* members of its team, an agent calls tools of its own tool list, tool    *)
(* results and answers flow back up, and the response is rendered once.    *)
(***************************************************************************)
EXTENDS Naturals, Sequences, FiniteSets, TLC

VARIABLES
    run,        \* number of the current execution of the script (process)
    env,        \* os.environ restricted to the two variables the script reads
    pc,         \* the statement about to execute (or executing), "exit" at the end
    raised,     \* the statement at which an uncaught exception was raised, or None
    trace,      \* the statements this execution has started, in order
    reads,      \* the environment variables read through os.getenv, in order
    agents,     \* constructed agents: module-level name -> attribute record
    hasStdout,  \* whether the process has a standard output stream (sys.stdout is not None)
    stdout,     \* the strings the process wrote to sys.stdout, one per write, in order
    submitted,  \* the requests handed to the Coordinator, in order
    inCall,     \* TRUE while print_response is executing
    phase,      \* phase of the call chain: idle, submitted, tools, rendered, done
    delegated,  \* delegated[a][b]: sub-requests a forwarded to b in this query
    answered,   \* answered[a][b]: answers of b that returned to a
    calls,      \* calls[a]: tool calls a issued in this query
    pending,    \* agents awaiting the return of a tool call
    logs,       \* per-agent conversation / tool-call log
    prev        \* summary of the previous execution of the script

vars == <<run, hasStdout, env, pc, raised, trace, reads, agents, stdout, submitted,
          inCall, phase, delegated, answered, calls, pending, logs, prev>>

callVars == <<inCall, phase, delegated, answered, calls, pending, logs>>

-----------------------------------------------------------------------------
(* Bounds *)

\* executions of the script that are compared with each other
MaxRuns == 2

\* sub-requests forwarded plus tool calls issued within one query, over all agents
MaxCalls == 3

-----------------------------------------------------------------------------
(* Values *)

\* Python's None: os.getenv of an absent variable, an omitted role
None == "None"

EnvVars == {"GROQ_API_KEY", "PHI_DEFAULT_MODEL"}

\* values a variable may have in the process environment or in the .env file
EnvValues(v) ==
    IF v = "GROQ_API_KEY" THEN {None, "", "gsk_key"}
    ELSE {None, "llama-3.3-70b-versatile", "gpt-4o"}

Environments == {e \in [EnvVars -> {None, "", "gsk_key", "llama-3.3-70b-versatile", "gpt-4o"}] :
                    \A v \in EnvVars : e[v] \in EnvValues(v)}

AgentIds == {"web_search", "financial_agent", "multi_ai_agent"}

NoAgents == [a \in {} |-> None]

Constructed == DOMAIN agents

Range(s) == {s[i] : i \in 1..Len(s)}

IsPrefix(s, t) == Len(s) <= Len(t) /\ SubSeq(t, 1, Len(s)) = s

Zero2 == [a \in AgentIds |-> [b \in AgentIds |-> 0]]

-----------------------------------------------------------------------------
(* The literal configuration of the three agents *)

ModelId == "llama-3.3-70b-versatile"

\* Faulty variant: the backend identifier is taken from PHI_DEFAULT_MODEL when it is set
Groq_FromEnv(id) ==
    [id |-> IF env["PHI_DEFAULT_MODEL"] # None THEN env["PHI_DEFAULT_MODEL"] ELSE id]

\* Groq(id=...): the backend reference of an agent
Groq(id) == [id |-> id]

\* DuckDuckGo(): the web-search capability
DuckDuckGo == [tool |-> "DuckDuckGo", enabled |-> {}]

\* YFinanceTools(...): the financial-data capability and its enabled sub-capabilities
YFinanceTools(company_news, stock_price, analyst_recommendations, stock_fundamentals) ==
    [tool |-> "YFinanceTools",
     enabled |-> {c \in {"company_news", "stock_price",
                         "analyst_recommendations", "stock_fundamentals"} :
                     \/ c = "company_news" /\ company_news
                     \/ c = "stock_price" /\ stock_price
                     \/ c = "analyst_recommendations" /\ analyst_recommendations
                     \/ c = "stock_fundamentals" /\ stock_fundamentals}]

\* an omitted tools= or team= argument binds nothing
NoTools == << >>

NoTeam == << >>

\* Faulty variant: the Web Search Agent is constructed without its tool
WebSearchTools_Empty == << >>

WebSearchTools == <<DuckDuckGo>>

FinancialTools == <<YFinanceTools(TRUE, TRUE, TRUE, TRUE)>>

\* Faulty variant: the Coordinator is given a tool of its own
CoordinatorTools_Search == <<DuckDuckGo>>

CoordinatorTools == NoTools

\* Faulty variant: the team is listed in the other order
CoordinatorTeam_Swapped == <<"financial_agent", "web_search">>

CoordinatorTeam == <<"web_search", "financial_agent">>

\* Faulty variant: the constructor derives the name from the startup environment
Agent_EnvName(name, role, model, tools, instructions, team, show_tool_calls, markdown) ==
    [name |-> IF env["PHI_DEFAULT_MODEL"] = None THEN name ELSE env["PHI_DEFAULT_MODEL"],
     role |-> role, model |-> model, tools |-> tools,
     instructions |-> instructions, team |-> team,
     show_tool_calls |-> show_tool_calls, markdown |-> markdown]

\* Agent(...): the attribute record the constructor is handed
Agent(name, role, model, tools, instructions, team, show_tool_calls, markdown) ==
    [name |-> name, role |-> role, model |-> model, tools |-> tools,
     instructions |-> instructions, team |-> team,
     show_tool_calls |-> show_tool_calls, markdown |-> markdown]

web_search ==
    Agent("Web Search Agent",
          "search the web for relevant information to answer user queries accurately.",
          Groq(ModelId), WebSearchTools,
          <<"Always include sources in your answers.">>,
          NoTeam, TRUE, TRUE)

financial_agent ==
    Agent("Financial Agent",
          "assist users with financial data analysis and stock market information.",
          Groq(ModelId), FinancialTools,
          <<"use tables to display the data">>,
          NoTeam, TRUE, TRUE)

multi_ai_agent ==
    Agent("Multi AI Agent", None, Groq(ModelId), CoordinatorTools,
          <<"use tables to display the data", "Always include sources in your answers.">>,
          CoordinatorTeam, TRUE, TRUE)

Query ==
    "Provide a summary of Apple's stock performance over the past year, including recent news that may impact its future performance."

-----------------------------------------------------------------------------
(* The script's statements, in program order *)

Stmts == <<"import", "load_dotenv", "print_key", "print_model",
           "web_search", "financial_agent", "multi_ai_agent", "print_response">>

IndexOf(s) == CHOOSE i \in 1..Len(Stmts) : Stmts[i] = s

\* Faulty variant: the query statement is in a loop
NextStmt_Loop(s) ==
    IF s = "print_response" THEN "print_response"
    ELSE IF IndexOf(s) = Len(Stmts) THEN "exit" ELSE Stmts[IndexOf(s) + 1]

\* straight-line code: the statement after s, "exit" after the last one
NextStmt(s) == IF IndexOf(s) = Len(Stmts) THEN "exit" ELSE Stmts[IndexOf(s) + 1]

\* Faulty variant: a failed query is submitted again
OnRaise_Retry(s) == IF s = "print_response" THEN s ELSE "exit"

\* Faulty variant: the exception is swallowed and the script goes on
OnRaise_Skip(s) == NextStmt(s)

\* no statement is inside a try block: an exception raised at s ends the process
OnRaise(s) == "exit"

\* the statements that may raise: each calls into a collaborator or, for the
\* two prints, writes to standard output (an encoding the stream lacks, a
\* failing write)
Raising == {"import", "load_dotenv", "print_key", "print_model",
            "web_search", "financial_agent", "multi_ai_agent", "print_response"}

\* the variable a statement reads through os.getenv before it does anything else
ReadBy(s) ==
    IF s = "print_key" THEN <<"GROQ_API_KEY">>
    ELSE IF s = "print_model" THEN <<"PHI_DEFAULT_MODEL">>
    ELSE << >>

-----------------------------------------------------------------------------
(* Initial state: a fresh process, before the first statement *)

NoPrev == [n |-> 0, env |-> [v \in EnvVars |-> None], trace |-> << >>,
           agents |-> NoAgents, submitted |-> << >>]

Fresh ==
    /\ pc = "import"
    /\ raised = None
    /\ trace = << >>
    /\ reads = << >>
    /\ agents = NoAgents
    /\ stdout = << >>
    /\ submitted = << >>
    /\ inCall = FALSE
    /\ phase = "idle"
    /\ delegated = Zero2
    /\ answered = Zero2
    /\ calls = [a \in AgentIds |-> 0]
    /\ pending = {}
    /\ logs = [a \in AgentIds |-> << >>]

Init ==
    /\ run = 1
    /\ hasStdout \in BOOLEAN
    /\ env \in Environments
    /\ prev = NoPrev
    /\ Fresh

-----------------------------------------------------------------------------
(* The script's statements *)

\* lines 11-16: the imports succeed
Import ==
    /\ pc = "import"
    /\ pc' = NextStmt("import")
    /\ trace' = Append(trace, "import")
    /\ UNCHANGED <<run, hasStdout, env, raised, reads, agents, stdout, submitted, prev>>
    /\ UNCHANGED callVars

\* line 22: load_dotenv() adds the variables of the .env file (if any) that the
\* process environment does not already define
LoadDotenv ==
    /\ pc = "load_dotenv"
    /\ \E dotenv \in Environments :
          env' = [v \in EnvVars |-> IF env[v] = None THEN dotenv[v] ELSE env[v]]
    /\ pc' = NextStmt("load_dotenv")
    /\ trace' = Append(trace, "load_dotenv")
    /\ UNCHANGED <<run, hasStdout, raised, reads, agents, stdout, submitted, prev>>
    /\ UNCHANGED callVars

\* Python's bool() of what os.getenv returned
Bool(v) == IF v = None \/ v = "" THEN "False" ELSE "True"

\* print(label, value): the writes it makes to sys.stdout, one per argument with
\* the separator between them and the line end last; none without a stream
Writes(label, value) == IF hasStdout THEN <<label, " ", value, "\n">> ELSE << >>

\* the writes of the print at statement s
WritesOf(s) ==
    IF s = "print_key" THEN Writes("GROQ_API_KEY loaded:", Bool(env["GROQ_API_KEY"]))
    ELSE IF s = "print_model" THEN Writes("PHI_DEFAULT_MODEL:", env["PHI_DEFAULT_MODEL"])
    ELSE << >>

\* line 26: print("GROQ_API_KEY loaded:", bool(os.getenv("GROQ_API_KEY")))
PrintKey ==
    /\ pc = "print_key"
    /\ reads' = reads \o ReadBy("print_key")
    /\ stdout' = stdout \o WritesOf("print_key")
    /\ pc' = NextStmt("print_key")
    /\ trace' = Append(trace, "print_key")
    /\ UNCHANGED <<run, hasStdout, env, raised, agents, submitted, prev>>
    /\ UNCHANGED callVars

\* line 27: print("PHI_DEFAULT_MODEL:", os.getenv("PHI_DEFAULT_MODEL"))
PrintModel ==
    /\ pc = "print_model"
    /\ reads' = reads \o ReadBy("print_model")
    /\ stdout' = stdout \o WritesOf("print_model")
    /\ pc' = NextStmt("print_model")
    /\ trace' = Append(trace, "print_model")
    /\ UNCHANGED <<run, hasStdout, env, raised, agents, submitted, prev>>
    /\ UNCHANGED callVars

\* binding a module-level name to a newly constructed agent
Bind(id, agent) == [a \in Constructed \cup {id} |-> IF a = id THEN agent ELSE agents[a]]

\* lines 35-43
ConstructWebSearch ==
    /\ pc = "web_search"
    /\ agents' = Bind("web_search", web_search)
    /\ pc' = NextStmt("web_search")
    /\ trace' = Append(trace, "web_search")
    /\ UNCHANGED <<run, hasStdout, env, raised, reads, stdout, submitted, prev>>
    /\ UNCHANGED callVars

\* lines 49-64
ConstructFinancial ==
    /\ pc = "financial_agent"
    /\ agents' = Bind("financial_agent", financial_agent)
    /\ pc' = NextStmt("financial_agent")
    /\ trace' = Append(trace, "financial_agent")
    /\ UNCHANGED <<run, hasStdout, env, raised, reads, stdout, submitted, prev>>
    /\ UNCHANGED callVars

\* lines 70-80
ConstructCoordinator ==
    /\ pc = "multi_ai_agent"
    /\ agents' = Bind("multi_ai_agent", multi_ai_agent)
    /\ pc' = NextStmt("multi_ai_agent")
    /\ trace' = Append(trace, "multi_ai_agent")
    /\ UNCHANGED <<run, hasStdout, env, raised, reads, stdout, submitted, prev>>
    /\ UNCHANGED callVars

\* Faulty variant: the query is also appended to the Coordinator's instruction list
SubmitQuery_AppendsInstruction ==
    /\ pc = "print_response"
    /\ ~inCall
    /\ "multi_ai_agent" \in Constructed
    /\ agents' = [agents EXCEPT !["multi_ai_agent"].instructions = Append(@, Query)]
    /\ submitted' = Append(submitted, Query)
    /\ trace' = Append(trace, "print_response")
    /\ inCall' = TRUE
    /\ phase' = "submitted"
    /\ delegated' = Zero2
    /\ answered' = Zero2
    /\ calls' = [a \in AgentIds |-> 0]
    /\ pending' = {}
    /\ UNCHANGED <<run, hasStdout, env, pc, raised, reads, stdout, logs, prev>>

\* lines 88-90: the call multi_ai_agent.print_response(<literal>) is entered
SubmitQuery ==
    /\ pc = "print_response"
    /\ ~inCall
    /\ submitted' = Append(submitted, Query)
    /\ trace' = Append(trace, "print_response")
    /\ inCall' = TRUE
    /\ phase' = "submitted"
    /\ delegated' = Zero2
    /\ answered' = Zero2
    /\ calls' = [a \in AgentIds |-> 0]
    /\ pending' = {}
    /\ UNCHANGED <<run, hasStdout, env, pc, raised, reads, agents, stdout, logs, prev>>

\* lines 88-90: print_response has printed the response and returns; the script ends
Return ==
    /\ pc = "print_response"
    /\ inCall
    /\ phase = "rendered"
    /\ inCall' = FALSE
    /\ phase' = "done"
    /\ pc' = NextStmt("print_response")
    /\ UNCHANGED <<run, hasStdout, env, raised, trace, reads, agents, stdout, submitted,
                   delegated, answered, calls, pending, logs, prev>>

\* a statement before the query raises, possibly after part of its effect:
\* load_dotenv has set some of the variables it would set, a print (after
\* os.getenv has returned) has made some but not all of its writes; an import
\* or a construction binds no name; without a stream a print writes nothing
\* and cannot fail.  Nothing catches the exception.
Raise ==
    /\ pc \in Raising \ {"print_response"}
    /\ pc \in {"print_key", "print_model"} => hasStdout
    /\ raised' = pc
    /\ trace' = Append(trace, pc)
    /\ reads' = reads \o ReadBy(pc)
    /\ IF pc = "load_dotenv"
          THEN \E dotenv \in Environments : \E done \in SUBSET EnvVars :
                  env' = [v \in EnvVars |->
                             IF v \in done /\ env[v] = None THEN dotenv[v] ELSE env[v]]
          ELSE env' = env
    /\ \E n \in 0..Len(WritesOf(pc)) :
          /\ n = Len(WritesOf(pc)) => n = 0
          /\ stdout' = stdout \o SubSeq(WritesOf(pc), 1, n)
    /\ pc' = OnRaise(pc)
    /\ UNCHANGED <<run, hasStdout, agents, submitted, prev>>
    /\ UNCHANGED callVars

\* the Coordinator (its backend, a tool, a missing credential, the output
\* stream) raises out of print_response before it returns: nothing catches it
RaiseInCall ==
    /\ pc = "print_response"
    /\ inCall
    /\ phase \in {"submitted", "tools", "rendered"}
    /\ raised' = "print_response"
    /\ inCall' = FALSE
    /\ pc' = OnRaise("print_response")
    /\ UNCHANGED <<run, hasStdout, env, trace, reads, agents, stdout, submitted,
                   phase, delegated, answered, calls, pending, logs, prev>>

\* the process has ended and the script is executed again, in a fresh process
\* with an environment of its own
Restart ==
    /\ pc = "exit"
    /\ run < MaxRuns
    /\ run' = run + 1
    /\ hasStdout' \in BOOLEAN
    /\ env' \in Environments
    /\ prev' = [n |-> run, env |-> env, trace |-> trace,
                agents |-> agents, submitted |-> submitted]
    /\ pc' = "import"
    /\ raised' = None
    /\ trace' = << >>
    /\ reads' = << >>
    /\ agents' = NoAgents
    /\ stdout' = << >>
    /\ submitted' = << >>
    /\ inCall' = FALSE
    /\ phase' = "idle"
    /\ delegated' = Zero2
    /\ answered' = Zero2
    /\ calls' = [a \in AgentIds |-> 0]
    /\ pending' = {}
    /\ logs' = [a \in AgentIds |-> << >>]

-----------------------------------------------------------------------------
(* Inside print_response: the Agent library's call chain, from the         *)
(* specification's interface contracts.  The decisions (whom to delegate   *)
(* to, which tool to call, when to answer) are the backend's and are left  *)
(* open; what an agent CAN do is decided by its team and tools attributes. *)

Coordinator == "multi_ai_agent"

\* a has a request it has not answered yet
Working(a) ==
    /\ inCall
    /\ phase \in {"submitted", "tools"}
    /\ a \in Constructed
    /\ \/ a = Coordinator
       \/ \E d \in AgentIds : answered[d][a] < delegated[d][a]

RECURSIVE Sum(_, _)
Sum(f, S) == IF S = {} THEN 0
             ELSE LET x == CHOOSE y \in S : TRUE IN f[x] + Sum(f, S \ {x})

\* sub-requests forwarded so far in this query
Delegations == Sum([a \in AgentIds |-> Sum(delegated[a], AgentIds)], AgentIds)

\* tool calls issued so far in this query
ToolCalls == Sum(calls, AgentIds)

Log(a, ev, arg) == [logs EXCEPT ![a] = Append(@, [ev |-> ev, arg |-> arg])]

\* a forwards a sub-request to b, a member of its team
Delegate(a, b) ==
    /\ Working(a)
    /\ a \notin pending
    /\ b \in Range(agents[a].team)
    /\ b \in Constructed
    /\ Delegations + ToolCalls < MaxCalls
    /\ delegated' = [delegated EXCEPT ![a][b] = @ + 1]
    /\ logs' = [logs EXCEPT ![a] = Append(@, [ev |-> "delegate", arg |-> b]),
                            ![b] = Append(@, [ev |-> "request", arg |-> a])]
    /\ phase' = "tools"
    /\ UNCHANGED <<run, hasStdout, env, pc, raised, trace, reads, agents, stdout, submitted,
                   inCall, answered, calls, pending, prev>>

\* a invokes one of the tools bound to it and waits for the result
ToolCall(a) ==
    /\ Working(a)
    /\ a \notin pending
    /\ Delegations + ToolCalls < MaxCalls
    /\ \E i \in 1..Len(agents[a].tools) :
          logs' = Log(a, "tool_call", agents[a].tools[i].tool)
    /\ calls' = [calls EXCEPT ![a] = @ + 1]
    /\ pending' = pending \cup {a}
    /\ phase' = "tools"
    /\ UNCHANGED <<run, hasStdout, env, pc, raised, trace, reads, agents, stdout, submitted,
                   inCall, delegated, answered, prev>>

\* the tool returns to a: data, an empty result set, or an error message
ToolReturn(a) ==
    /\ inCall
    /\ a \in pending
    /\ \E r \in {"data", "empty", "error"} : logs' = Log(a, "tool_result", r)
    /\ pending' = pending \ {a}
    /\ UNCHANGED <<run, hasStdout, env, pc, raised, trace, reads, agents, stdout, submitted,
                   inCall, phase, delegated, answered, calls, prev>>

\* b returns its answer to a, which delegated to it
Answer(a, b) ==
    /\ inCall
    /\ phase = "tools"
    /\ answered[a][b] < delegated[a][b]
    /\ b \notin pending
    /\ \A c \in AgentIds : answered[b][c] = delegated[b][c]
    /\ answered' = [answered EXCEPT ![a][b] = @ + 1]
    /\ logs' = [logs EXCEPT ![b] = Append(@, [ev |-> "answer", arg |-> a]),
                            ![a] = Append(@, [ev |-> "answer_from", arg |-> b])]
    /\ UNCHANGED <<run, hasStdout, env, pc, raised, trace, reads, agents, stdout, submitted,
                   inCall, phase, delegated, calls, pending, prev>>

\* the merged Markdown answer, as one write
Response == "response (markdown)"

\* the Coordinator has every answer it asked for and the response is printed
Render ==
    /\ Working(Coordinator)
    /\ pending = {}
    /\ answered = delegated
    /\ stdout' = IF hasStdout THEN Append(stdout, Response) ELSE stdout
    /\ logs' = Log(Coordinator, "response", "stdout")
    /\ phase' = "rendered"
    /\ UNCHANGED <<run, hasStdout, env, pc, raised, trace, reads, agents, submitted,
                   inCall, delegated, answered, calls, pending, prev>>

-----------------------------------------------------------------------------

Next ==
    \/ Import
    \/ LoadDotenv
    \/ PrintKey
    \/ PrintModel
    \/ ConstructWebSearch
    \/ ConstructFinancial
    \/ ConstructCoordinator
    \/ SubmitQuery
    \/ \E a \in AgentIds : \E b \in AgentIds : Delegate(a, b)
    \/ \E a \in AgentIds : ToolCall(a)
    \/ \E a \in AgentIds : ToolReturn(a)
    \/ \E a \in AgentIds : \E b \in AgentIds : Answer(a, b)
    \/ Render
    \/ Return
    \/ Raise
    \/ RaiseInCall

Spec == Init /\ [][Next]_vars

\* Two executions of the script, one after the other, each in a process and an
\* environment of its own; the Coordinator answers the query by itself.
NextRerun ==
    \/ Import
    \/ LoadDotenv
    \/ PrintKey
    \/ PrintModel
    \/ ConstructWebSearch
    \/ ConstructFinancial
    \/ ConstructCoordinator
    \/ SubmitQuery
    \/ Render
    \/ Return
    \/ Raise
    \/ RaiseInCall
    \/ Restart

SpecRerun == Init /\ [][NextRerun]_vars

-----------------------------------------------------------------------------
(* Properties *)

Specialists == {"web_search", "financial_agent"}

Responses == {i \in 1..Len(stdout) : stdout[i] = "response (markdown)"}

LinesEnded(out) == Cardinality({i \in 1..Len(out) : out[i] = "\n"})

\* C1: every constructed Specialist Agent (Web Search Agent, Financial Agent)
\* has a non-empty tool-binding list, in every reachable state: after
\* construction and before, during and after the query.
C1_SpecialistsHaveTools ==
    \A a \in Specialists \cap Constructed : Len(agents[a].tools) >= 1

\* both Specialists exist, the query is running and a Specialist has used its tool
C1_Witness ==
    /\ Specialists \subseteq Constructed
    /\ inCall
    /\ calls["web_search"] = 1
    /\ pending = {}

\* C2: the Coordinator's team list is exactly the configured Specialist Agents
\* in configured order (Web Search Agent first, Financial Agent second): none
\* missing, none twice, no other agent; and it is so in every state from
\* construction on, in particular when the query is submitted.
C2_TeamExact ==
    Coordinator \in Constructed =>
        LET team == agents[Coordinator].team IN
        /\ Len(team) = 2
        /\ team[1] = "web_search"
        /\ team[2] = "financial_agent"
        /\ Range(team) = Constructed \ {Coordinator}
        /\ agents[team[1]].name = "Web Search Agent"
        /\ agents[team[2]].name = "Financial Agent"

\* the query has just been submitted to the Coordinator
C2_Witness ==
    /\ inCall
    /\ phase = "submitted"
    /\ Len(submitted) = 1
    /\ Len(agents[Coordinator].team) = 2

PhaseSteps == {<<"idle", "submitted">>, <<"submitted", "tools">>,
               <<"submitted", "rendered">>, <<"tools", "rendered">>,
               <<"rendered", "done">>}

C3_State ==
    /\ phase = "idle" => /\ Delegations = 0
                         /\ ToolCalls = 0
                         /\ submitted = << >>
    /\ Responses # {} => phase \in {"rendered", "done"}
    /\ phase \in {"rendered", "done"} => /\ pending = {}
                                         /\ answered = delegated
    /\ \A a \in AgentIds :
          calls[a] > 0 => /\ a \in Specialists
                          /\ delegated[Coordinator][a] > 0
                          /\ Len(submitted) > 0

C3_Step == phase' = phase \/ <<phase, phase'>> \in PhaseSteps

\* C3: a run follows only the chain idle -> request submitted -> (optional)
\* tool calls dispatched and awaited -> response rendered -> done; no phase is
\* re-entered after a later one; the response is rendered only after every
\* dispatched tool call and every delegated answer has returned; a tool is
\* invoked only by a Specialist the Coordinator delegated to after the request
\* was submitted.
C3_LinearChain == []C3_State /\ [][C3_Step]_vars

\* a run that delegated to both Specialists, used a tool, rendered and ended
C3_Witness ==
    /\ phase = "done"
    /\ pc = "exit"
    /\ delegated[Coordinator]["web_search"] > 0
    /\ delegated[Coordinator]["financial_agent"] > 0
    /\ calls["financial_agent"] > 0
    /\ Responses # {}

\* C4: the one literal request is submitted to the Coordinator at most once in
\* a run and exactly once in a run that reaches the query statement, only after
\* both Specialists and the Coordinator are constructed; the Coordinator is not
\* invoked again whether the call succeeds or fails; at most one response is
\* written to standard output.
C4_SubmittedOnce ==
    /\ Len(submitted) <= 1
    /\ \A i \in 1..Len(submitted) :
          submitted[i] = "Provide a summary of Apple's stock performance over the past year, including recent news that may impact its future performance."
    /\ Len(submitted) > 0 => AgentIds \subseteq Constructed
    /\ Cardinality(Responses) <= 1
    /\ (pc = "exit" /\ raised = None) =>
          /\ Len(submitted) = 1
          /\ Cardinality(Responses) = IF hasStdout THEN 1 ELSE 0
    /\ raised = "print_response" => /\ pc = "exit"
                                    /\ Len(submitted) = 1

\* the query failed after tool use and the process ended without a second call
C4_Witness ==
    /\ raised = "print_response"
    /\ pc = "exit"
    /\ Len(submitted) = 1
    /\ ToolCalls > 0

C6_State ==
    /\ pc = "exit" <=> (raised # None \/ phase = "done")
    /\ raised # None =>
          /\ ~inCall
          /\ trace = SubSeq(Stmts, 1, IndexOf(raised))
          /\ Constructed = {Stmts[i] : i \in 1..(IndexOf(raised) - 1)} \cap AgentIds
          /\ phase # "done"

C6_Step ==
    /\ raised # None => UNCHANGED vars
    /\ (raised = None /\ raised' # None) =>
          /\ raised' = pc
          /\ pc' = "exit"
          /\ agents' = agents
          /\ IsPrefix(stdout, stdout')
          /\ LinesEnded(stdout') = LinesEnded(stdout)
          /\ submitted' = submitted
          /\ logs' = logs

\* C6: nothing is caught: a failure raised at any step (import, environment
\* load, the two prints, agent construction, the query call) ends the
\* process at that step, no later statement executes, and the script has one
\* terminal position for the failed and the normal path alike.
C6_FailureTerminates == []C6_State /\ [][C6_Step]_vars

\* constructing the Financial Agent failed: the process ended with only the
\* Web Search Agent constructed and no query submitted
C6_Witness ==
    /\ raised = "financial_agent"
    /\ pc = "exit"
    /\ Constructed = {"web_search"}
    /\ submitted = << >>

C7_Step ==
    /\ \A a \in Constructed : a \in DOMAIN agents' /\ agents'[a] = agents[a]
    /\ \A a \in AgentIds : IsPrefix(logs[a], logs'[a])
    /\ (inCall \/ inCall') => agents' = agents

\* C7: after construction no agent attribute (name, role, backend reference,
\* instructions, tools, team, output flags) changes at any step of the query's
\* lifetime; the logs change by appending only.
C7_NoMutation == [][C7_Step]_vars

\* the query is running, all three agents exist and logs have been appended to
C7_Witness ==
    /\ inCall
    /\ AgentIds \subseteq Constructed
    /\ Len(logs[Coordinator]) >= 2
    /\ Len(logs["web_search"]) >= 3

IdentityOf(a) == [name |-> a.name, role |-> a.role, instructions |-> a.instructions]

\* C8: construction yields the literal name, role and instructions whatever the
\* environment, and a second execution (after an earlier construction and an
\* earlier query, under another environment) yields the same attributes.
C8_ConstructionPure ==
    /\ "web_search" \in Constructed =>
          IdentityOf(agents["web_search"]) =
              [name |-> "Web Search Agent",
               role |-> "search the web for relevant information to answer user queries accurately.",
               instructions |-> <<"Always include sources in your answers.">>]
    /\ "financial_agent" \in Constructed =>
          IdentityOf(agents["financial_agent"]) =
              [name |-> "Financial Agent",
               role |-> "assist users with financial data analysis and stock market information.",
               instructions |-> <<"use tables to display the data">>]
    /\ "multi_ai_agent" \in Constructed =>
          IdentityOf(agents["multi_ai_agent"]) =
              [name |-> "Multi AI Agent",
               role |-> None,
               instructions |-> <<"use tables to display the data",
                                  "Always include sources in your answers.">>]
    /\ \A a \in Constructed \cap DOMAIN prev.agents :
          IdentityOf(agents[a]) = IdentityOf(prev.agents[a])

\* all three agents constructed a second time, under a different environment,
\* after an execution that constructed them and ran the query
C8_Witness ==
    /\ run = 2
    /\ AgentIds \subseteq Constructed
    /\ AgentIds \subseteq DOMAIN prev.agents
    /\ Len(prev.submitted) = 1
    /\ prev.env # env
    /\ env["GROQ_API_KEY"] = None

TeamEdges == {e \in AgentIds \X AgentIds :
                 e[1] \in Constructed /\ e[2] \in Range(agents[e[1]].team)}

Compose(R, S) == {e \in AgentIds \X AgentIds :
                     \E m \in AgentIds : <<e[1], m>> \in R /\ <<m, e[2]>> \in S}

TeamReach == TeamEdges \cup Compose(TeamEdges, TeamEdges)
                 \cup Compose(TeamEdges, Compose(TeamEdges, TeamEdges))

\* C9: delegation is one-directional and one hop deep: the Coordinator has no
\* tools and delegates only to members of its team; no Specialist has a team or
\* a reference to the Coordinator; no Specialist delegates, the Coordinator
\* issues no tool call, and the team relation has no cycle.
C9_OneHop ==
    /\ Coordinator \in Constructed =>
          /\ agents[Coordinator].tools = << >>
          /\ Range(agents[Coordinator].team) \subseteq Specialists
    /\ \A s \in Specialists \cap Constructed : agents[s].team = << >>
    /\ \A a \in AgentIds : <<a, a>> \notin TeamReach
    /\ \A a \in AgentIds : \A b \in AgentIds :
          delegated[a][b] > 0 => /\ a = Coordinator
                                 /\ b \in Range(agents[Coordinator].team)
    /\ calls[Coordinator] = 0

\* the Coordinator delegated to both team members and one of them called its tool
C9_Witness ==
    /\ delegated[Coordinator]["web_search"] > 0
    /\ delegated[Coordinator]["financial_agent"] > 0
    /\ calls["web_search"] > 0
    /\ inCall

\* C10: all three agents are bound to the same backend identifier whatever the
\* environment; the script reads each of the two variables once, before any
\* agent is constructed; the statements executed up to the submission of the
\* query are the same in two executions that differ in the environment.
C10_BackendFixed ==
    /\ \A a \in Constructed : agents[a].model.id = "llama-3.3-70b-versatile"
    /\ IsPrefix(reads, <<"GROQ_API_KEY", "PHI_DEFAULT_MODEL">>)
    /\ "GROQ_API_KEY" \in Range(reads) <=> "print_key" \in Range(trace)
    /\ "PHI_DEFAULT_MODEL" \in Range(reads) <=> "print_model" \in Range(trace)
    /\ (Constructed # {} \/ pc \in AgentIds) =>
          reads = <<"GROQ_API_KEY", "PHI_DEFAULT_MODEL">>
    /\ Len(submitted) > 0 => trace = Stmts
    /\ (Len(submitted) > 0 /\ Len(prev.submitted) > 0) =>
          /\ prev.trace = trace
          /\ \A a \in AgentIds : prev.agents[a].model = agents[a].model

\* two executions reached the query, the first with PHI_DEFAULT_MODEL naming
\* another backend and the second without the variable and without credential
C10_Witness ==
    /\ run = 2
    /\ Len(submitted) = 1
    /\ Len(prev.submitted) = 1
    /\ prev.env["PHI_DEFAULT_MODEL"] = "gpt-4o"
    /\ env["PHI_DEFAULT_MODEL"] = None
    /\ prev.env["GROQ_API_KEY"] = "gsk_key"
    /\ env["GROQ_API_KEY"] = ""

====
